---- MODULE Spec2Model ----
(***************************************************************************)
(* Model of the genome core of rust_sim (src/src/genome.rs,                *)
(* src/src/definitions.rs): the GENOME_ID allocator, the Gene byte/value   *)
(* codec built on mem::transmute, the three Gene mutation policies and     *)
(* the Genome passes that delegate to them.                                *)
(*                                                                         *)
(* A u32 is written as its four base-256 digits, most significant first:   *)
(* 0xAFA9BEEC is <<175, 169, 190, 236>>.  A [u8; 4] array is the tuple of  *)
(* its elements in index order.                                            *)
(***************************************************************************)
EXTENDS Integers, Sequences, FiniteSets, TLC

\* ---------------------------------------------------------------- bounds
NumBytes == 2
MaxCalls == 2
MaxPasses == 2
MaxGenomes == 3
MaxThreads == 2
NumSeeds == 2
NumPosVectors == 2
NumDrawVectors == 3

\* ------------------------------------------------------ program constants
GENOME_SIZE == 16
GENOME_MUTATION_TRIES == 1000
GENOME_MUTATION_RATE == 1
mutation_mask == <<0, 0, 0, 1>>

VARIABLES
    scenario,      \* which part of the program is exercised
    endian,        \* byte order of the build target
    GENOME_ID,     \* the static atomic counter
    nthreads,      \* number of threads calling Genome::new_random
    pc,            \* per thread: position inside draw_counter
    issued,        \* values returned by draw_counter, in completion order
    genomes,       \* Genomes constructed so far, in completion order
    counter_read,  \* last value returned by get_counter
    bytes_a,       \* byte array gene_a was constructed from
    bytes_b,       \* byte array gene_b was constructed from
    gene_a,        \* the Gene operated on
    gene_b,        \* the second Gene
    bytes_out,     \* last result of to_bytes
    cmp,           \* last results of == and !=
    genome_a,      \* the Genome operated on
    op,            \* last operation performed
    odds,          \* odds argument of the last mutate_on_odds
    ncalls         \* number of mutation calls / passes performed

vars == <<scenario, endian, GENOME_ID, nthreads, pc, issued, genomes,
          counter_read, bytes_a, bytes_b, gene_a, gene_b, bytes_out, cmp,
          genome_a, op, odds, ncalls>>

\* ------------------------------------------------------- u8 / u32 values
Byte == 0..255

\* bit k of a byte
Bit(a, k) == (a \div (2 ^ k)) % 2

\* a ^ b on u8, bit by bit
XorBits(a, b) ==
    LET x(k) == (Bit(a, k) + Bit(b, k)) % 2
    IN  x(0) + 2 * x(1) + 4 * x(2) + 8 * x(3)
        + 16 * x(4) + 32 * x(5) + 64 * x(6) + 128 * x(7)

\* a | b on u8, bit by bit
OrBits(a, b) ==
    LET x(k) == IF Bit(a, k) = 1 \/ Bit(b, k) = 1 THEN 1 ELSE 0
    IN  x(0) + 2 * x(1) + 4 * x(2) + 8 * x(3)
        + 16 * x(4) + 32 * x(5) + 64 * x(6) + 128 * x(7)

\* the two operations tabulated once over all pairs of bytes
XorTable == [a \in Byte |-> [b \in Byte |-> XorBits(a, b)]]

OrTable == [a \in Byte |-> [b \in Byte |-> OrBits(a, b)]]

BitXor(a, b) == XorTable[a][b]

BitOr(a, b) == OrTable[a][b]

\* number of set bits of a byte
PopCount(a) ==
    Bit(a, 0) + Bit(a, 1) + Bit(a, 2) + Bit(a, 3)
    + Bit(a, 4) + Bit(a, 5) + Bit(a, 6) + Bit(a, 7)

U32Xor(x, y) == [i \in 1..4 |-> BitXor(x[i], y[i])]

U32Or(x, y) == [i \in 1..4 |-> BitOr(x[i], y[i])]

\* x << n on 32 bits, 0 <= n < 32: bits shifted past bit 31 are dropped
U32Shl(x, n) ==
    LET q == n \div 8
        r == n % 8
        digit(j) == IF j \in 1..4 THEN x[j] ELSE 0
    IN  [i \in 1..4 |->
            ((digit(i + q) * (2 ^ r)) % 256) + (digit(i + q + 1) \div (2 ^ (8 - r)))]

U32FromByte(b) == <<0, 0, 0, b>>

\* number of bit positions in which two u32 values differ
Hamming(x, y) ==
    LET d == U32Xor(x, y)
    IN  PopCount(d[1]) + PopCount(d[2]) + PopCount(d[3]) + PopCount(d[4])

\* mem::transmute::<[u8; 4], u32>: the array's memory read as a native u32
TransmuteBytesToU32(bytes) ==
    IF endian = "little"
    THEN <<bytes[4], bytes[3], bytes[2], bytes[1]>>
    ELSE <<bytes[1], bytes[2], bytes[3], bytes[4]>>

\* a rebuild that always splits the value most significant byte first
TransmuteU32ToBytes_be(value) ==
    <<value[1], value[2], value[3], value[4]>>

\* mem::transmute::<u32, [u8; 4]>: the native u32's memory read as an array
TransmuteU32ToBytes(value) ==
    IF endian = "little"
    THEN <<value[4], value[3], value[2], value[1]>>
    ELSE <<value[1], value[2], value[3], value[4]>>

\* ------------------------------------------------------------------ Gene
Gene_new_from_bytes(bytes) ==
    [source |-> bytes[1], weight |-> bytes[2], bias |-> bytes[3],
     sink |-> bytes[4], value |-> TransmuteBytesToU32(bytes)]

\* draws: the four results of gen_range(0..256), in call order
Gene_new_random(draws) ==
    LET gene == [source |-> draws[1] % 256, weight |-> draws[2] % 256,
                 bias |-> draws[3] % 256, sink |-> draws[4] % 256,
                 value |-> <<0, 0, 0, 0>>]
    IN  [gene EXCEPT !.value =
            TransmuteBytesToU32(<<gene.source, gene.weight, gene.bias, gene.sink>>)]

Gene_rebuild(self) ==
    LET bytes == TransmuteU32ToBytes(self.value)
    IN  [self EXCEPT !.source = bytes[1], !.weight = bytes[2],
                     !.bias = bytes[3], !.sink = bytes[4]]

Gene_to_bytes(self) == <<self.source, self.weight, self.bias, self.sink>>

\* an equality that looks at the source byte only
Gene_eq_source(self, other) == self.source = other.source

Gene_eq(self, other) == self.value = other.value

Gene_ne(self, other) == self.value # other.value

\* a mutation that sets the chosen bit instead of flipping it
Gene_mutate_deterministic_or(self, pos) ==
    Gene_rebuild([self EXCEPT !.value = U32Or(self.value, U32Shl(mutation_mask, pos))])

\* pos: the result of gen_range(0..32)
Gene_mutate_deterministic(self, pos) ==
    Gene_rebuild([self EXCEPT !.value = U32Xor(self.value, U32Shl(mutation_mask, pos))])

\* a mutation that changes the value and leaves the four fields stale
Gene_mutate_random_stale(self, draw_random, pos) ==
    IF draw_random < GENOME_MUTATION_RATE
    THEN [self EXCEPT !.value = U32Xor(self.value, U32Shl(mutation_mask, pos))]
    ELSE self

\* draw_random: the result of gen_range(0..GENOME_MUTATION_TRIES)
Gene_mutate_random(self, draw_random, pos) ==
    IF draw_random < GENOME_MUTATION_RATE
    THEN Gene_rebuild([self EXCEPT !.value = U32Xor(self.value, U32Shl(mutation_mask, pos))])
    ELSE self

\* a threshold test that also fires when the draw equals the odds
Gene_mutate_on_odds_le(self, p, draw_random, pos) ==
    IF draw_random <= p
    THEN Gene_rebuild([self EXCEPT !.value = U32Xor(self.value, U32Shl(mutation_mask, pos))])
    ELSE self

\* a threshold test that is off by one on the high side
Gene_mutate_on_odds_short(self, p, draw_random, pos) ==
    IF draw_random + 1 < p
    THEN Gene_rebuild([self EXCEPT !.value = U32Xor(self.value, U32Shl(mutation_mask, pos))])
    ELSE self

Gene_mutate_on_odds(self, p, draw_random, pos) ==
    IF draw_random < p
    THEN Gene_rebuild([self EXCEPT !.value = U32Xor(self.value, U32Shl(mutation_mask, pos))])
    ELSE self

\* ---------------------------------------------------------------- Genome
\* a constructor whose loop stops one gene early
Genome_new_random_short(genome_id, draws) ==
    [id |-> genome_id,
     adn |-> [i \in 1..(GENOME_SIZE - 1) |-> Gene_new_random(draws[i])]]

\* draws: for each gene, the four results of gen_range(0..256)
Genome_new_random(genome_id, draws) ==
    [id |-> genome_id,
     adn |-> [i \in 1..GENOME_SIZE |-> Gene_new_random(draws[i])]]

\* draws, pos: for each gene, the results of its two gen_range calls
Genome_mutate_random(self, draws, pos) ==
    [self EXCEPT !.adn =
        [i \in 1..Len(self.adn) |-> Gene_mutate_random(self.adn[i], draws[i], pos[i])]]

\* a pass that stops one gene short of the end of the vector
Genome_mutate_deterministic_short(self, pos) ==
    [self EXCEPT !.adn =
        [i \in 1..Len(self.adn) |->
            IF i < Len(self.adn)
            THEN Gene_mutate_deterministic(self.adn[i], pos[i])
            ELSE self.adn[i]]]

Genome_mutate_deterministic(self, pos) ==
    [self EXCEPT !.adn =
        [i \in 1..Len(self.adn) |-> Gene_mutate_deterministic(self.adn[i], pos[i])]]

Genome_mutate_on_odds(self, p, draws, pos) ==
    [self EXCEPT !.adn =
        [i \in 1..Len(self.adn) |->
            Gene_mutate_on_odds(self.adn[i], p, draws[i], pos[i])]]

\* ------------------------------------------------------------- allocator
\* GENOME_ID.fetch_add(0, SeqCst): the new value of the counter
bump_counter(counter) == counter + 0

\* GENOME_ID.load(SeqCst)
get_counter(counter) == counter

\* ---------------------------------------------------------------- inputs
ByteTable == <<0, 255, 128, 1, 127, 170>>

ByteSamples == {ByteTable[i] : i \in 1..NumBytes}

\* byte arrays taken from the tests and the documented examples
ExampleBytes ==
    { <<255, 126, 231, 1>>, <<255, 126, 231, 129>>,
      <<175, 169, 190, 236>>, <<73, 150, 2, 210>> }

ByteTuples ==
    {<<a, b, c, d>> : a \in ByteSamples, b \in ByteSamples,
                      c \in ByteSamples, d \in ByteSamples} \cup ExampleBytes

\* byte array of the Gene that is mutated
GeneTuples == { <<175, 169, 190, 236>> }

\* results of gen_range(0..32)
BitPositions == 0..31

\* results of gen_range(0..GENOME_MUTATION_TRIES): both ends of the range
Draws == {0, 1, GENOME_MUTATION_TRIES - 2, GENOME_MUTATION_TRIES - 1}

\* odds arguments (u16)
OddsSamples == {0, 1, GENOME_MUTATION_TRIES - 1, GENOME_MUTATION_TRIES, 65535}

\* the bytes drawn for the 16 genes of a random Genome
AdnDraws(seed) ==
    [i \in 1..GENOME_SIZE |->
        [j \in 1..4 |-> (seed * 89 + i * 37 + j * 101 + i * j * 13) % 256]]

Seeds == 1..NumSeeds

\* the bit positions drawn for the 16 genes during one pass
PosVector(k) == [i \in 1..GENOME_SIZE |-> (k * 7 + i * (2 * k - 1) + 24) % 32]

PosVectors == {PosVector(k) : k \in 1..NumPosVectors}

\* the threshold draws for the 16 genes during one pass
DrawVector(k) ==
    [i \in 1..GENOME_SIZE |->
        CASE k = 1 -> 0
          [] k = 2 -> GENOME_MUTATION_TRIES - 1
          [] k = 3 -> IF i % 2 = 1 THEN 0 ELSE GENOME_MUTATION_TRIES - 1
          [] OTHER -> (i * 61 * k) % GENOME_MUTATION_TRIES]

DrawVectors == {DrawVector(k) : k \in 1..NumDrawVectors}

Threads == 1..nthreads

ZeroGene == Gene_new_from_bytes(<<0, 0, 0, 0>>)

NoGenome == [id |-> 0, adn |-> <<>>]

\* ------------------------------------------------------------------ Init
IdleGenes ==
    /\ bytes_a = <<0, 0, 0, 0>>
    /\ bytes_b = <<0, 0, 0, 0>>
    /\ gene_a = ZeroGene
    /\ gene_b = ZeroGene

IdleGenome ==
    /\ genome_a = NoGenome

IdleAllocator ==
    /\ GENOME_ID = 0
    /\ nthreads = 1
    /\ pc = [t \in 1..MaxThreads |-> "idle"]
    /\ issued = <<>>
    /\ genomes = <<>>

\* a fresh process whose threads are about to construct Genomes
InitAlloc ==
    /\ scenario = "alloc"
    /\ endian \in {"little", "big"}
    /\ GENOME_ID = 0
    /\ nthreads \in 1..MaxThreads
    /\ pc = [t \in 1..MaxThreads |-> "idle"]
    /\ issued = <<>>
    /\ genomes = <<>>
    /\ IdleGenes
    /\ IdleGenome
    /\ op = "start"

\* two Genes built by new_from_bytes
InitCodec ==
    /\ scenario = "codec"
    /\ endian \in {"little", "big"}
    /\ IdleAllocator
    /\ bytes_a \in ByteTuples
    /\ bytes_b \in ByteTuples
    /\ gene_a = Gene_new_from_bytes(bytes_a)
    /\ gene_b = Gene_new_from_bytes(bytes_b)
    /\ IdleGenome
    /\ op = "new_from_bytes"

\* one Gene built by either constructor, and its clone
InitGene ==
    /\ scenario = "gene"
    /\ endian \in {"little", "big"}
    /\ IdleAllocator
    /\ bytes_a \in GeneTuples
    /\ bytes_b = bytes_a
    /\ \/ gene_a = Gene_new_from_bytes(bytes_a) /\ op = "new_from_bytes"
       \/ gene_a = Gene_new_random(bytes_a) /\ op = "new_random"
    /\ gene_b = gene_a
    /\ IdleGenome

\* one Genome built by Genome::new_random in a fresh process
InitGenome ==
    /\ scenario = "genome"
    /\ endian \in {"little", "big"}
    /\ GENOME_ID = bump_counter(0)
    /\ nthreads = 1
    /\ pc = [t \in 1..MaxThreads |-> "idle"]
    /\ issued = <<get_counter(GENOME_ID)>>
    /\ \E seed \in Seeds :
          genome_a = Genome_new_random(get_counter(GENOME_ID), AdnDraws(seed))
    /\ genomes = <<genome_a>>
    /\ IdleGenes
    /\ op = "new_random"

Init ==
    /\ \/ InitAlloc
       \/ InitCodec
       \/ InitGene
       \/ InitGenome
    /\ counter_read = 0
    /\ bytes_out = <<0, 0, 0, 0>>
    /\ cmp = [eq |-> FALSE, ne |-> FALSE]
    /\ odds = 0
    /\ ncalls = 0

\* ------------------------------------------------------ allocator actions
InFlight == Cardinality({t \in Threads : pc[t] # "idle"})

\* Genome::new_random, first half of draw_counter: bump_counter()
BumpCounter ==
    /\ scenario = "alloc"
    /\ \E t \in Threads :
          /\ pc[t] = "idle"
          /\ Len(genomes) + InFlight < MaxGenomes
          /\ GENOME_ID' = bump_counter(GENOME_ID)
          /\ pc' = [pc EXCEPT ![t] = "bumped"]
    /\ op' = "bump_counter"
    /\ UNCHANGED <<scenario, endian, nthreads, issued, genomes, counter_read,
                   bytes_a, bytes_b, gene_a, gene_b, bytes_out, cmp,
                   genome_a, odds, ncalls>>

\* Genome::new_random, second half of draw_counter (the load) and the
\* construction of the Genome around the value it returned
LoadCounter ==
    /\ scenario = "alloc"
    /\ \E t \in Threads, seed \in Seeds :
          /\ pc[t] = "bumped"
          /\ LET curr_counter == get_counter(GENOME_ID)
             IN  /\ issued' = Append(issued, curr_counter)
                 /\ genomes' = Append(genomes,
                                  Genome_new_random(curr_counter, AdnDraws(seed)))
          /\ pc' = [pc EXCEPT ![t] = "idle"]
    /\ op' = "new_random"
    /\ UNCHANGED <<scenario, endian, GENOME_ID, nthreads, counter_read,
                   bytes_a, bytes_b, gene_a, gene_b, bytes_out, cmp,
                   genome_a, odds, ncalls>>

\* get_counter()
GetCounter ==
    /\ scenario = "alloc"
    /\ counter_read' = get_counter(GENOME_ID)
    /\ op' = "get_counter"
    /\ UNCHANGED <<scenario, endian, GENOME_ID, nthreads, pc, issued, genomes,
                   bytes_a, bytes_b, gene_a, gene_b, bytes_out, cmp,
                   genome_a, odds, ncalls>>

\* ----------------------------------------------------------- Gene actions
\* gene_a == gene_b and gene_a != gene_b
GeneCompare ==
    /\ scenario = "codec"
    /\ cmp' = [eq |-> Gene_eq(gene_a, gene_b), ne |-> Gene_ne(gene_a, gene_b)]
    /\ op' = "compare"
    /\ UNCHANGED <<scenario, endian, GENOME_ID, nthreads, pc, issued, genomes,
                   counter_read, bytes_a, bytes_b, gene_a, gene_b, bytes_out,
                   genome_a, odds, ncalls>>

\* gene_a.rebuild()
GeneRebuild ==
    /\ scenario = "codec"
    /\ gene_a' = Gene_rebuild(gene_a)
    /\ op' = "rebuild"
    /\ UNCHANGED <<scenario, endian, GENOME_ID, nthreads, pc, issued, genomes,
                   counter_read, bytes_a, bytes_b, gene_b, bytes_out, cmp,
                   genome_a, odds, ncalls>>

\* gene_a.to_bytes()
GeneToBytes ==
    /\ scenario = "codec"
    /\ bytes_out' = Gene_to_bytes(gene_a)
    /\ op' = "to_bytes"
    /\ UNCHANGED <<scenario, endian, GENOME_ID, nthreads, pc, issued, genomes,
                   counter_read, bytes_a, bytes_b, gene_a, gene_b, cmp,
                   genome_a, odds, ncalls>>

\* gene_a.mutate_random()
GeneMutateRandom ==
    /\ scenario = "gene"
    /\ ncalls < MaxCalls
    /\ \E draw_random \in Draws, pos \in BitPositions :
          gene_a' = Gene_mutate_random(gene_a, draw_random, pos)
    /\ op' = "mutate_random"
    /\ ncalls' = ncalls + 1
    /\ UNCHANGED <<scenario, endian, GENOME_ID, nthreads, pc, issued, genomes,
                   counter_read, bytes_a, bytes_b, gene_b, bytes_out, cmp,
                   genome_a, odds>>

\* gene_a.mutate_on_odds(odds)
GeneMutateOnOdds ==
    /\ scenario = "gene"
    /\ ncalls < MaxCalls
    /\ \E p \in OddsSamples, draw_random \in Draws, pos \in BitPositions :
          /\ gene_a' = Gene_mutate_on_odds(gene_a, p, draw_random, pos)
          /\ odds' = p
    /\ op' = "mutate_on_odds"
    /\ ncalls' = ncalls + 1
    /\ UNCHANGED <<scenario, endian, GENOME_ID, nthreads, pc, issued, genomes,
                   counter_read, bytes_a, bytes_b, gene_b, bytes_out, cmp,
                   genome_a>>

\* gene_a.mutate_deterministic()
GeneMutateDeterministic ==
    /\ scenario = "gene"
    /\ ncalls < MaxCalls
    /\ \E pos \in BitPositions :
          gene_a' = Gene_mutate_deterministic(gene_a, pos)
    /\ op' = "mutate_deterministic"
    /\ ncalls' = ncalls + 1
    /\ UNCHANGED <<scenario, endian, GENOME_ID, nthreads, pc, issued, genomes,
                   counter_read, bytes_a, bytes_b, gene_b, bytes_out, cmp,
                   genome_a, odds>>

\* --------------------------------------------------------- Genome actions
\* genome_a.mutate_random()
GenomeMutateRandom ==
    /\ scenario = "genome"
    /\ ncalls < MaxPasses
    /\ \E draws \in DrawVectors, pos \in PosVectors :
          genome_a' = Genome_mutate_random(genome_a, draws, pos)
    /\ op' = "mutate_random"
    /\ ncalls' = ncalls + 1
    /\ UNCHANGED <<scenario, endian, GENOME_ID, nthreads, pc, issued, genomes,
                   counter_read, bytes_a, bytes_b, gene_a, gene_b, bytes_out,
                   cmp, odds>>

\* genome_a.mutate_deterministic()
GenomeMutateDeterministic ==
    /\ scenario = "genome"
    /\ ncalls < MaxPasses
    /\ \E pos \in PosVectors :
          genome_a' = Genome_mutate_deterministic(genome_a, pos)
    /\ op' = "mutate_deterministic"
    /\ ncalls' = ncalls + 1
    /\ UNCHANGED <<scenario, endian, GENOME_ID, nthreads, pc, issued, genomes,
                   counter_read, bytes_a, bytes_b, gene_a, gene_b, bytes_out,
                   cmp, odds>>

\* genome_a.mutate_on_odds(odds)
GenomeMutateOnOdds ==
    /\ scenario = "genome"
    /\ ncalls < MaxPasses
    /\ \E p \in OddsSamples, draws \in DrawVectors, pos \in PosVectors :
          /\ genome_a' = Genome_mutate_on_odds(genome_a, p, draws, pos)
          /\ odds' = p
    /\ op' = "mutate_on_odds"
    /\ ncalls' = ncalls + 1
    /\ UNCHANGED <<scenario, endian, GENOME_ID, nthreads, pc, issued, genomes,
                   counter_read, bytes_a, bytes_b, gene_a, gene_b, bytes_out,
                   cmp>>

Next ==
    \/ BumpCounter
    \/ LoadCounter
    \/ GetCounter
    \/ GeneCompare
    \/ GeneRebuild
    \/ GeneToBytes
    \/ GeneMutateRandom
    \/ GeneMutateOnOdds
    \/ GeneMutateDeterministic
    \/ GenomeMutateRandom
    \/ GenomeMutateDeterministic
    \/ GenomeMutateOnOdds

Spec == Init /\ [][Next]_vars

\* ======================================================================
\* Properties
\* ======================================================================

\* source<<24 | weight<<16 | bias<<8 | sink, composed with shifts and ors
BigEndianPack(f) ==
    U32Or(U32Or(U32Shl(U32FromByte(f[1]), 24), U32Shl(U32FromByte(f[2]), 16)),
          U32Or(U32Shl(U32FromByte(f[3]), 8), U32FromByte(f[4])))

\* C1: with a single caller in a fresh process, the values returned by
\* successive draw_counter calls are 0, 1, 2, ..., N-1 in that order.
C1_SequentialDrawsCountUp ==
    (scenario = "alloc" /\ nthreads = 1) =>
        \A i \in 1..Len(issued) : issued[i] = i - 1

\* C2: when several threads interleave their draw_counter calls, the values
\* returned are pairwise distinct and form a contiguous range without gaps.
C2_ConcurrentDrawsDistinctNoGaps ==
    (scenario = "alloc" /\ nthreads > 1) =>
        LET returned == {issued[i] : i \in 1..Len(issued)}
        IN  /\ Cardinality(returned) = Len(issued)
            /\ \A lo \in returned, hi \in returned :
                  \A v \in lo..hi : v \in returned

\* C3: any two Genomes built by Genome::new_random in one process run have
\* different ids, whatever their genes are.
C3_GenomeIdsDiffer ==
    scenario = "alloc" =>
        \A i \in 1..Len(genomes), j \in 1..Len(genomes) :
            i # j => genomes[i].id # genomes[j].id

\* C4: a Gene built by new_from_bytes([source, weight, bias, sink]) has
\* value = source<<24 | weight<<16 | bias<<8 | sink.
C4_PackedLayoutBigEndian ==
    scenario = "codec" =>
        /\ gene_a.value = BigEndianPack(bytes_a)
        /\ gene_b.value = BigEndianPack(bytes_b)

\* C5: unpacking the packed value of a byte array (new_from_bytes, then
\* rebuild / to_bytes) gives the array back, and packing the bytes that
\* rebuild derived from a 32-bit value gives the value back.
C5_RoundTrip ==
    /\ (scenario = "codec" /\ op = "rebuild") => Gene_to_bytes(gene_a) = bytes_a
    /\ (scenario = "codec" /\ op = "to_bytes") => bytes_out = bytes_a
    /\ (scenario = "gene" /\ ncalls > 0) =>
          TransmuteBytesToU32(Gene_to_bytes(gene_a)) = gene_a.value

C5_Witness ==
    /\ scenario = "codec"
    /\ op = "rebuild"
    /\ endian = "little"
    /\ bytes_a = <<175, 169, 190, 236>>
    /\ Gene_to_bytes(gene_a) = <<175, 169, 190, 236>>

\* C6: every call of Gene::mutate_deterministic, for every Gene and every
\* bit position 0..31, changes the value in exactly one bit, so the Gene
\* differs from what it was before the call.
C6_MutateDeterministicFlipsOneBit ==
    [][(scenario = "gene" /\ op' = "mutate_deterministic") =>
          /\ Hamming(gene_a.value, gene_a'.value) = 1
          /\ Gene_ne(gene_a', gene_a)
          /\ ~Gene_eq(gene_a', gene_a)]_vars

C6_Witness ==
    /\ scenario = "gene"
    /\ op = "mutate_deterministic"
    /\ ncalls = 2
    /\ Hamming(gene_a.value, Gene_new_from_bytes(bytes_a).value) = 2

\* C7: a call of mutate_on_odds(0), on a Gene or as a Genome pass, leaves
\* the Gene (value and fields) and every gene of the Genome unchanged,
\* however often it is repeated.
C7_OddsZeroChangesNothing ==
    [][(op' = "mutate_on_odds" /\ odds' = 0) =>
          /\ gene_a' = gene_a
          /\ genome_a' = genome_a]_vars

C7_Witness ==
    /\ scenario = "gene"
    /\ op = "mutate_on_odds"
    /\ odds = 0
    /\ ncalls = 2
    /\ gene_a.value # Gene_new_from_bytes(bytes_a).value

\* C8: a call of Gene::mutate_on_odds(p) with p >= GENOME_MUTATION_TRIES
\* changes the Gene's value for every draw in [0, 1000).
C8_OddsAtLeastTriesAlwaysMutates ==
    [][(scenario = "gene" /\ op' = "mutate_on_odds"
            /\ odds' >= GENOME_MUTATION_TRIES) =>
          /\ gene_a'.value # gene_a.value
          /\ Gene_ne(gene_a', gene_a)]_vars

C8_Witness ==
    /\ scenario = "gene"
    /\ op = "mutate_on_odds"
    /\ odds = GENOME_MUTATION_TRIES
    /\ ncalls = 1
    /\ gene_a.value # Gene_new_from_bytes(bytes_a).value

\* C9: one call of Genome::mutate_deterministic changes the value of the
\* gene at every one of the 16 positions.
C9_GenomeMutateDeterministicChangesEveryGene ==
    [][(scenario = "genome" /\ op' = "mutate_deterministic") =>
          \A i \in 1..GENOME_SIZE :
              genome_a'.adn[i].value # genome_a.adn[i].value]_vars

C9_Witness ==
    /\ scenario = "genome"
    /\ op = "mutate_deterministic"
    /\ ncalls = 1
    /\ Len(genome_a.adn) = GENOME_SIZE

\* C10: two Genes built by new_from_bytes are == exactly when their byte
\* arrays are identical, and != is the negation of ==.
C10_EqualityInjectiveOnBytes ==
    (scenario = "codec" /\ op = "compare") =>
        /\ cmp.eq <=> (bytes_a = bytes_b)
        /\ cmp.ne <=> ~cmp.eq

C10_Witness ==
    /\ scenario = "codec"
    /\ op = "compare"
    /\ bytes_a = <<255, 126, 231, 1>>
    /\ bytes_b = <<255, 126, 231, 129>>
    /\ cmp.ne
    /\ ~cmp.eq

\* C11: get_counter has no side effect, and once every started draw has
\* completed the value it returns is the number of identifiers issued so
\* far (the number of completed draw_counter calls / Genomes constructed);
\* its result never decreases.
C11_ReadEqualsIssuedCount ==
    (scenario = "alloc" /\ op = "get_counter" /\ \A t \in Threads : pc[t] = "idle") =>
        /\ counter_read = Len(issued)
        /\ counter_read = Len(genomes)

\* C12: a Gene made by new_from_bytes or new_random and mutated by any
\* sequence of mutate_random, mutate_on_odds and mutate_deterministic calls
\* always has source, weight, bias, sink equal to the four bytes that
\* unpacking its value gives.
C12_FieldsFollowValue ==
    scenario \in {"codec", "gene"} =>
        /\ <<gene_a.source, gene_a.weight, gene_a.bias, gene_a.sink>>
              = TransmuteU32ToBytes(gene_a.value)
        /\ <<gene_b.source, gene_b.weight, gene_b.bias, gene_b.sink>>
              = TransmuteU32ToBytes(gene_b.value)

C12_Witness ==
    /\ scenario = "gene"
    /\ op = "mutate_random"
    /\ ncalls = 2
    /\ Hamming(gene_a.value, Gene_new_random(bytes_a).value) = 2
    /\ Gene_to_bytes(gene_a) # bytes_a

\* C13: a Genome built by new_random has exactly 16 genes, and every
\* mutation pass (mutate_random, mutate_deterministic, mutate_on_odds)
\* leaves its id and its number of genes as they were.
C13_GenomeFrame ==
    [][/\ \A i \in 1..Len(genomes') : Len(genomes'[i].adn) = GENOME_SIZE
       /\ scenario = "genome" =>
             /\ Len(genome_a.adn) = GENOME_SIZE
             /\ Len(genome_a'.adn) = GENOME_SIZE
             /\ genome_a'.id = genome_a.id]_vars

C13_Witness ==
    /\ scenario = "genome"
    /\ ncalls = 2
    /\ op = "mutate_on_odds"
    /\ genome_a.adn # genomes[1].adn
    /\ genome_a.id = genomes[1].id
    /\ Len(genome_a.adn) = GENOME_SIZE

====
